---- MODULE Spec2Model ----
(***************************************************************************)
(* The espeak driver of pyttsx3 (src/pyttsx3/drivers/espeak.py): the task  *)
(* queue, the polling loop startLoop, the operations say, save_to_file,    *)
(* runAndWait, stop and endLoop, and the synthesis callback _onSynth.      *)
(*                                                                         *)
(* Three flows of control touch the driver's fields:                       *)
(*   - the caller's thread, which is inside at most one blocking call      *)
(*     (pc: "idle", "loop" = inside startLoop, "poll" = in the wait of     *)
(*     runAndWait);                                                        *)
(*   - the engine's thread, which runs _onSynth (cb.pc is its position);   *)
(*   - calls that arrive while the caller is blocked (from a proxy         *)
(*     notification handler or another thread): say and save_to_file when  *)
(*     they only append (the loop is marked running), stop and endLoop.    *)
(* The engine binding _espeak is not part of the sources: Synth, Cancel,   *)
(* IsPlaying and the delivery of callbacks are modelled as a black box     *)
(* that delivers, for each accepted synthesis, callbacks carrying frames   *)
(* and at most one stream-terminated event.                                *)
(*                                                                         *)
(* Specifications:                                                         *)
(*   Spec             a constructed driver: the operations, the loop and   *)
(*                    the callback;                                        *)
(*   SpecFaultyProxy  the same under a proxy whose handlers may raise;     *)
(*   SpecAccessors    setProperty and getProperty called while the driver  *)
(*                    speaks;                                              *)
(*   SpecProcess      a process from its start: constructions, destroy     *)
(*                    and the accessors;                                   *)
(*   SpecVolume       the volume set and read over all hundredths.         *)
(***************************************************************************)
EXTENDS Integers, Sequences, FiniteSets, TLC

\* Bounds of the model.
MaxTasks == 2         \* tasks enqueued in one behaviour
MaxFrames == 1        \* audio frames the engine delivers in one behaviour
\* The iteration ceiling of startLoop.  The source's value is 5000
\* (espeak.py:255); the model scales it down, and no property depends on it.
LoopCeiling == 3
MaxConstructions == 2 \* constructions of a driver attempted in one process

\* Program constants.
VolumeScale == 100    \* the engine's volume scale: value * 100, ... / 100.0
DefaultRate == 200    \* self.setProperty("rate", 200)
\* Volume fractions (Python floats) are represented by their number of
\* ten-thousandths: 0.5 is 5000.
Unit == 10000

None == "None"
\* the destination of the save task of text t: one file name per task
Dest(t) == <<"file", t>>
TaskIds == 1..MaxTasks

VARIABLES
  queue,            \* self._queue
  looping,          \* self._looping
  stopping,         \* self._stopping
  speaking,         \* self._speaking
  text_to_say,      \* self._text_to_say (0 = None; a text is its task's number)
  data_buffer,      \* self._data_buffer, a sequence of frames
  save_file,        \* self._save_file
  busy,             \* the proxy's busy flag, as set by setBusy
  notes,            \* the notify() calls received by the proxy, in order
  synth,            \* the engine: the synthesis it has outstanding
  files,            \* the wave files written, in order
  played,           \* the buffers handed to _playback_audio, in order
  cb,               \* the engine thread's position inside _onSynth
  cbret,            \* how the last invocation of _onSynth ended: "0" is the
                    \* status 0 returned, "raised" an exception
  pc,               \* the caller's position
  op,               \* the blocking call the caller is inside
  external,         \* startLoop's parameter
  timeout_counter,  \* startLoop's local counter
  nextId,           \* the number of the next task to be enqueued
  framesOut,        \* the number of frames the engine has delivered
  moduleInitialized,\* EspeakDriver._moduleInitialized, the class-level guard
  initCalls,        \* the number of calls of _espeak.Initialize so far
  constructions,    \* the number of calls of EspeakDriver(proxy) so far
  synthCallback,    \* the callback registered by SetSynthCallback
  params,           \* the engine's voice and numeric parameters
  call,             \* the property accessor call just made: the name and
                    \* the value passed, what it returned and the engine
                    \* functions it invoked
  last              \* the step just taken, <<operation, outcome>>, for the
                    \* steps the properties speak of; <<None, None>> otherwise

vars == <<queue, looping, stopping, speaking, text_to_say, data_buffer,
          save_file, busy, notes, synth, files, played, cb, cbret,
          pc, op, external, timeout_counter, nextId, framesOut,
          moduleInitialized, initCalls, constructions, synthCallback, params,
          call, last>>

\* what the operations of a constructed driver leave alone
processVars == <<moduleInitialized, initCalls, constructions, synthCallback,
                 params>>

\* the fields of the driver, its proxy, the synthesis and the caller
driverVars == <<queue, looping, stopping, speaking, text_to_say, data_buffer,
                save_file, busy, notes, synth, files, played, cb, cbret,
                pc, op, external, timeout_counter, nextId, framesOut>>

\* ---------------------------------------------------------------- values

SayTask(text) == [text |-> text, filename |-> None]
SaveTask(text, filename) == [text |-> text, filename |-> filename]

\* isinstance(task, dict) and "filename" in task
IsSaveTask(task) == task.filename # None

Note(ev, text) == [ev |-> ev, text |-> text]

NoSynth == [text |-> 0, sent |-> 0, cancelled |-> FALSE, hung |-> FALSE]
NoCallback == [pc |-> "none", text |-> 0, frames |-> <<>>]

\* _espeak.IsPlaying(): a synthesis call is outstanding
IsPlaying == synth.text # 0

\* _espeak.Cancel(): the engine is asked to abort; it still owes the
\* stream-terminated event
Cancel == [synth EXCEPT !.cancelled = TRUE]

\* no accessor call was made in the step just taken
NoCall == [name |-> None, value |-> None, ret |-> None, engine |-> <<>>]

\* the voices the engine knows, by name
Voices == {"gmw/en", "gmw/en-US"}
\* EspeakDriver._defaultVoice, lines 37-41
DefaultVoice == "gmw/en"

\* the engine's parameters before any driver has set them
EngineDefaults == [voice |-> DefaultVoice, rate |-> 175, volume |-> VolumeScale,
                   pitch |-> 50]

\* the volume fraction k/100
Fraction(k) == k * (Unit \div VolumeScale)
Hundredths == 0..VolumeScale

\* value * 100 in binary floating point: the product of the double nearest
\* to k/100 and 100 is k exactly, except that it falls just below k for
\* k = 29, 57, 58 and just above for k = 7, 14, 28, 55, 56; one
\* ten-thousandth stands for that last-place error
TimesScale(value) ==
  value * VolumeScale
    + (IF value \in {Fraction(29), Fraction(57), Fraction(58)} THEN -1
       ELSE IF value \in {Fraction(7), Fraction(14), Fraction(28),
                          Fraction(55), Fraction(56)} THEN 1
       ELSE 0)

\* round(x, 2): the nearest multiple of a hundredth
Hundredth == Unit \div 100
Round2(x) == ((x + Hundredth \div 2) \div Hundredth) * Hundredth

\* int(x), for x >= 0: the fraction is dropped
int(x) == x \div Unit

\* int(value * 100): the conversion without its rounding
VolumeToEngineTruncated(value) == int(TimesScale(value))

\* int(round(value * 100, 2)), line 147
VolumeToEngine(value) == int(Round2(TimesScale(value)))

\* GetParameter(VOLUME) / 100.0, line 110
VolumeFromEngine(n) == (n * Unit) \div VolumeScale

\* the engine's parameters after the three setProperty calls of __init__
Constructed(ps) ==
  [ps EXCEPT !.voice = DefaultVoice, !.rate = DefaultRate,
             !.volume = VolumeToEngine(Fraction(VolumeScale))]

\* the state after the first construction of a driver
Init ==
  /\ moduleInitialized = TRUE
  /\ initCalls = 1
  /\ constructions = 1
  /\ synthCallback = "_onSynth"
  /\ params = Constructed(EngineDefaults)
  /\ call = NoCall
  /\ queue = <<>>
  /\ looping = FALSE
  /\ stopping = FALSE
  /\ speaking = FALSE
  /\ text_to_say = 0
  /\ data_buffer = <<>>
  /\ save_file = None
  /\ busy = FALSE
  /\ notes = <<>>
  /\ synth = NoSynth
  /\ files = <<>>
  /\ played = <<>>
  /\ cb = NoCallback
  /\ cbret = None
  /\ pc = "idle"
  /\ op = None
  /\ external = FALSE
  /\ timeout_counter = 0
  /\ nextId = 1
  /\ framesOut = 0
  /\ last = <<None, None>>

\* ------------------------------------------------- the caller's position

\* A blocking call ends: normally (runAndWait goes on to its wait), or by an
\* exception that propagates to its caller.
Leave(outcome) ==
  /\ pc' = IF op = "runAndWait" /\ outcome \in {"loop-ended", "timeout"}
           THEN "poll" ELSE "idle"
  /\ op' = IF op = "runAndWait" /\ outcome \in {"loop-ended", "timeout"}
           THEN op ELSE None
  /\ external' = FALSE
  /\ timeout_counter' = 0
  /\ last' = <<op, outcome>>

\* a step no property needs to tell from the others
Unobserved == last' = <<None, None>>

\* The loop goes to its next iteration (time.sleep(0.01)).
Continue ==
  /\ timeout_counter' = timeout_counter + 1
  /\ Unobserved
  /\ UNCHANGED <<pc, op, external>>

\* startLoop past its guard: lines 245-248
EnterLoop(name, ext) ==
  /\ looping' = TRUE
  /\ external' = ext
  /\ timeout_counter' = 0
  /\ pc' = "loop"
  /\ op' = name
  /\ Unobserved

\* ------------------------------------------------------------ operations

\* say and save_to_file: append, and run the loop unless it is marked running
Enqueue(name, task) ==
  /\ call' = NoCall
  /\ UNCHANGED processVars
  /\ nextId <= MaxTasks
  /\ pc = "idle" \/ looping
  /\ queue' = Append(queue, task)
  /\ nextId' = nextId + 1
  /\ IF ~looping
     THEN EnterLoop(name, FALSE)
     ELSE /\ Unobserved
          /\ UNCHANGED <<looping, external, timeout_counter, pc, op>>
  /\ UNCHANGED <<stopping, speaking, text_to_say, data_buffer, save_file,
                 busy, notes, synth, files, played, cb, cbret, framesOut>>

say == Enqueue("say", SayTask(nextId))

save_to_file == Enqueue("save_to_file", SaveTask(nextId, Dest(nextId)))

\* stop() without its test of IsPlaying
stopUnguarded ==
  /\ call' = NoCall
  /\ UNCHANGED processVars
  /\ stopping' = TRUE
  /\ synth' = Cancel
  /\ last' = <<None, None>>
  /\ UNCHANGED <<queue, looping, speaking, text_to_say, data_buffer,
                 save_file, busy, notes, files, played, cb, cbret,
                 pc, op, external, timeout_counter, nextId, framesOut>>

\* stop() that also discards the tasks waiting in the queue
stopClearsQueue ==
  /\ call' = NoCall
  /\ UNCHANGED processVars
  /\ IF IsPlaying
     THEN /\ stopping' = TRUE
          /\ synth' = Cancel
          /\ queue' = <<>>
          /\ Unobserved
     ELSE /\ last' = <<"stop", "idle">>
          /\ UNCHANGED <<stopping, synth, queue>>
  /\ UNCHANGED <<looping, speaking, text_to_say, data_buffer,
                 save_file, busy, notes, files, played, cb, cbret,
                 pc, op, external, timeout_counter, nextId, framesOut>>

stop ==
  /\ call' = NoCall
  /\ UNCHANGED processVars
  /\ IF IsPlaying
     THEN /\ stopping' = TRUE
          /\ synth' = Cancel
          /\ Unobserved
     ELSE /\ last' = <<"stop", "idle">>
          /\ UNCHANGED <<stopping, synth>>
  /\ UNCHANGED <<queue, looping, speaking, text_to_say, data_buffer,
                 save_file, busy, notes, files, played, cb, cbret,
                 pc, op, external, timeout_counter, nextId, framesOut>>

endLoop ==
  /\ call' = NoCall
  /\ UNCHANGED processVars
  /\ looping' = FALSE
  /\ Unobserved
  /\ UNCHANGED <<queue, stopping, speaking, text_to_say, data_buffer,
                 save_file, busy, notes, synth, files, played, cb,
                 cbret, pc, op, external, timeout_counter, nextId, framesOut>>

\* startLoop called directly
startLoop ==
  /\ call' = NoCall
  /\ UNCHANGED processVars
  /\ pc = "idle"
  /\ \E ext \in BOOLEAN :
       IF looping
       THEN /\ Unobserved
            /\ UNCHANGED <<looping, external, timeout_counter, pc, op>>
       ELSE EnterLoop("startLoop", ext)
  /\ UNCHANGED <<queue, stopping, speaking, text_to_say, data_buffer,
                 save_file, busy, notes, synth, files, played, cb,
                 cbret, nextId, framesOut>>

\* runAndWait up to its wait: lines 312-313
runAndWait ==
  /\ call' = NoCall
  /\ UNCHANGED processVars
  /\ pc = "idle"
  /\ IF looping
     THEN /\ pc' = "poll"
          /\ op' = "runAndWait"
          /\ Unobserved
          /\ UNCHANGED <<looping, external, timeout_counter>>
     ELSE EnterLoop("runAndWait", FALSE)
  /\ UNCHANGED <<queue, stopping, speaking, text_to_say, data_buffer,
                 save_file, busy, notes, synth, files, played, cb,
                 cbret, nextId, framesOut>>

\* a wait that looks at the queue only
WaitOverQueueOnly(q, sp) == q = <<>>

\* the wait of runAndWait is over: line 316
WaitOver(q, sp) == q = <<>> /\ ~sp

runAndWaitReturn ==
  /\ call' = NoCall
  /\ UNCHANGED processVars
  /\ pc = "poll"
  /\ WaitOver(queue, speaking)
  /\ pc' = "idle"
  /\ op' = None
  /\ last' = <<"runAndWait", "returned">>
  /\ UNCHANGED <<queue, looping, stopping, speaking, text_to_say, data_buffer,
                 save_file, busy, notes, synth, files, played, cb,
                 cbret, external, timeout_counter, nextId, framesOut>>

\* ------------------------------------------------------------- the loop

\* queue.pop(): the newest task instead of the oldest
NewestTask(q) == q[Len(q)]

\* queue.pop(0)
NextTask(q) == Head(q)
RestOfQueue(q) == Tail(q)

\* _start_synthesis without the setBusy(False) of its except clause
start_synthesis_StaysBusy(text, raises, hung) ==
  /\ speaking' = TRUE
  /\ data_buffer' = <<>>
  /\ busy' = TRUE
  /\ IF raises
     THEN /\ notes' = notes \o <<Note("started-utterance", text),
                                 Note("error", text)>>
          /\ synth' = synth
     ELSE /\ notes' = Append(notes, Note("started-utterance", text))
          /\ synth' = [text |-> text, sent |-> 0, cancelled |-> FALSE,
                       hung |-> hung]

\* _start_synthesis(text); raises: Synth raises; hung: the engine accepts the
\* text and will never signal the end of its stream
start_synthesis(text, raises, hung) ==
  /\ speaking' = TRUE
  /\ data_buffer' = <<>>
  /\ IF raises
     THEN /\ busy' = FALSE
          /\ notes' = notes \o <<Note("started-utterance", text),
                                 Note("error", text)>>
          /\ synth' = synth
     ELSE /\ busy' = TRUE
          /\ notes' = Append(notes, Note("started-utterance", text))
          /\ synth' = [text |-> text, sent |-> 0, cancelled |-> FALSE,
                       hung |-> hung]

\* next(self.iterate()): the class defines no iterate, the call raises
\* AttributeError, which the StopIteration handler does not catch
Yield == IF external THEN Leave("AttributeError") ELSE Continue

\* one iteration of the while loop of startLoop
LoopIteration ==
  /\ call' = NoCall
  /\ UNCHANGED processVars
  /\ pc = "loop"
  /\ looping
  /\ IF timeout_counter + 1 > LoopCeiling
     THEN \* lines 255-258, then 290
          /\ looping' = FALSE
          /\ busy' = FALSE
          /\ Leave("timeout")
          /\ UNCHANGED <<queue, speaking, text_to_say, data_buffer, save_file,
                         notes, synth>>
     ELSE IF ~speaking /\ queue # <<>>
     THEN \* lines 261-274
          LET task == NextTask(queue) IN
          /\ queue' = RestOfQueue(queue)
          /\ save_file' = IF IsSaveTask(task) THEN task.filename ELSE None
          /\ text_to_say' = task.text
          /\ \E raises \in BOOLEAN, hung \in BOOLEAN :
               /\ start_synthesis(task.text, raises, hung)
               /\ IF raises THEN Leave("SynthError") ELSE Yield
          /\ UNCHANGED looping
     ELSE \* lines 277-279
          /\ looping' = IF ~speaking /\ queue = <<>> THEN FALSE ELSE looping
          /\ Yield
          /\ UNCHANGED <<queue, speaking, text_to_say, data_buffer, save_file,
                         busy, notes, synth>>
  /\ UNCHANGED <<stopping, files, played, cb, cbret, nextId, framesOut>>

\* a loop that discards the tasks still queued when it exits
LoopExitDrains ==
  /\ call' = NoCall
  /\ UNCHANGED processVars
  /\ pc = "loop"
  /\ ~looping
  /\ busy' = FALSE
  /\ queue' = <<>>
  /\ Leave("loop-ended")
  /\ UNCHANGED <<looping, stopping, speaking, text_to_say, data_buffer,
                 save_file, notes, synth, files, played, cb, cbret,
                 nextId, framesOut>>

\* the while condition fails: line 290 and the return
LoopExit ==
  /\ call' = NoCall
  /\ UNCHANGED processVars
  /\ pc = "loop"
  /\ ~looping
  /\ busy' = FALSE
  /\ Leave("loop-ended")
  /\ UNCHANGED <<queue, looping, stopping, speaking, text_to_say, data_buffer,
                 save_file, notes, synth, files, played, cb, cbret,
                 nextId, framesOut>>

\* --------------------------------------------------------- the callback

\* _playback_audio: the buffer goes to the platform's player
playback_audio == played' = Append(played, data_buffer)

\* the frames a callback of n samples carries: frame k of the text in synthesis
FramesOf(n) == IF n = 1 THEN <<<<synth.text, synth.sent + 1>>>> ELSE <<>>

\* the frames 1..k of text t, as the engine delivers them
Frames(t, k) == [i \in 1..k |-> <<t, i>>]

\* wave.open(...).writeframes(self._data_buffer), lines 187-191, during an
\* invocation that carries n frames; text and delivered record, for the
\* properties, the task in synthesis and the frames the engine delivered for it
WaveFile(n) == [dest |-> save_file, data |-> data_buffer, text |-> synth.text,
                delivered |-> Frames(synth.text, synth.sent + n)]

\* lines 186-197 with the clearing inside the try block, not in finally
SaveBufferNoFinally(n, encodes) ==
  /\ files' = IF encodes THEN Append(files, WaveFile(n)) ELSE files
  /\ data_buffer' = IF encodes THEN <<>> ELSE data_buffer
  /\ save_file' = IF encodes THEN None ELSE save_file

\* lines 186-197: the buffer is written to the destination when the file can
\* be encoded; buffer and destination are cleared in either case
SaveBuffer(n, encodes) ==
  /\ files' = IF encodes THEN Append(files, WaveFile(n)) ELSE files
  /\ data_buffer' = <<>>
  /\ save_file' = None

\* The engine invokes _onSynth with n frames and no stream-terminated event:
\* the event loop does nothing, lines 205-208 append and return 0.
onSynthFrames ==
  /\ synthCallback # None
  /\ call' = NoCall
  /\ UNCHANGED processVars
  /\ IsPlaying
  /\ cb.pc = "none"
  /\ \E n \in 0..1 :
       /\ framesOut + n <= MaxFrames
       /\ framesOut' = framesOut + n
       /\ data_buffer' = data_buffer \o FramesOf(n)
       /\ synth' = [synth EXCEPT !.sent = @ + n]
  /\ cbret' = "0"
  /\ Unobserved
  /\ UNCHANGED <<queue, looping, stopping, speaking, text_to_say, save_file,
                 busy, notes, files, played, cb, pc, op, external,
                 timeout_counter, nextId>>

\* The engine invokes _onSynth with n frames and the stream-terminated event:
\* the handler runs lines 181-200.  encodes: the wave file can be written.
onSynthTerminated ==
  /\ synthCallback # None
  /\ call' = NoCall
  /\ UNCHANGED processVars
  /\ IsPlaying
  /\ ~synth.hung
  /\ cb.pc = "none"
  /\ \E n \in 0..1 :
       /\ framesOut + n <= MaxFrames
       /\ framesOut' = framesOut + n
       /\ cb' = [pc |-> "notify", text |-> synth.text, frames |-> FramesOf(n)]
       /\ IF save_file # None
          THEN \E encodes \in BOOLEAN :
                 /\ SaveBuffer(n, encodes)
                 /\ last' = <<"onSynth",
                              IF encodes THEN "saved" ELSE "save-failed">>
          ELSE /\ last' = <<"onSynth", "terminated">>
               /\ UNCHANGED <<files, data_buffer, save_file>>
  /\ speaking' = FALSE
  /\ synth' = NoSynth
  /\ UNCHANGED <<queue, looping, stopping, text_to_say, busy, notes, played,
                 cbret, pc, op, external, timeout_counter, nextId>>

\* lines 201-202: the notification, then the busy flag
onSynthNotify ==
  /\ call' = NoCall
  /\ UNCHANGED processVars
  /\ cb.pc = "notify"
  /\ notes' = Append(notes, Note("finished-utterance", cb.text))
  /\ busy' = FALSE
  /\ cb' = [cb EXCEPT !.pc = "append"]
  /\ last' = <<"onSynth", "notified">>
  /\ UNCHANGED <<queue, looping, stopping, speaking, text_to_say, data_buffer,
                 save_file, synth, files, played, cbret, pc, op,
                 external, timeout_counter, nextId, framesOut>>

\* lines 205-208 of the terminating invocation
onSynthReturn ==
  /\ call' = NoCall
  /\ UNCHANGED processVars
  /\ cb.pc = "append"
  /\ data_buffer' = data_buffer \o cb.frames
  /\ cb' = NoCallback
  /\ cbret' = "0"
  /\ Unobserved
  /\ UNCHANGED <<queue, looping, stopping, speaking, text_to_say, save_file,
                 busy, notes, synth, files, played, pc, op,
                 external, timeout_counter, nextId, framesOut>>

\* the proxy's handler of "finished-utterance" raises: nothing in _onSynth
\* catches it, lines 202-208 are skipped
onSynthNotifyRaises ==
  /\ call' = NoCall
  /\ UNCHANGED processVars
  /\ cb.pc = "notify"
  /\ notes' = Append(notes, Note("finished-utterance", cb.text))
  /\ cb' = NoCallback
  /\ cbret' = "raised"
  /\ last' = <<"onSynth", "raised">>
  /\ UNCHANGED <<queue, looping, stopping, speaking, text_to_say, data_buffer,
                 save_file, busy, synth, files, played, pc, op,
                 external, timeout_counter, nextId, framesOut>>

\* ------------------------------------------- the property accessors

\* the names setProperty and getProperty tell apart
SetNames == {"voice", "rate", "volume", "pitch"}
GetNames == SetNames \cup {"voices"}

\* _espeak.SetVoiceByName(name): 0 (EE_OK) for a voice the engine knows, 2
\* (EE_INTERNAL_ERROR) otherwise
SetVoiceByName(name) == IF name \in Voices THEN 0 ELSE 2

\* what a call of an accessor does: the engine's parameters after it, how it
\* ends, what it returns and the engine functions it has invoked
Effect(ps, outcome, ret, engine) ==
  [params |-> ps, outcome |-> outcome, ret |-> ret, engine |-> engine]

\* setProperty whose last branch sets the pitch, whatever the name
setPropertyEffectNoElse(name, value) ==
  IF name = "voice"
  THEN IF value = None
       THEN Effect(params, "returned", None, <<>>)
       ELSE IF SetVoiceByName(value) = 0
       THEN Effect([params EXCEPT !.voice = value], "returned", None,
                   <<"SetVoiceByName">>)
       ELSE Effect(params, "ValueError", None, <<"SetVoiceByName">>)
  ELSE IF name = "rate"
  THEN Effect([params EXCEPT !.rate = value], "returned", None,
              <<"SetParameter">>)
  ELSE IF name = "volume"
  THEN Effect([params EXCEPT !.volume = VolumeToEngine(value)], "returned",
              None, <<"SetParameter">>)
  ELSE Effect([params EXCEPT !.pitch = value], "returned", None,
              <<"SetParameter">>)

\* setProperty(name, value), lines 115-156
setPropertyEffect(name, value) ==
  IF name = "voice"
  THEN IF value = None
       THEN Effect(params, "returned", None, <<>>)
       ELSE IF SetVoiceByName(value) = 0
       THEN Effect([params EXCEPT !.voice = value], "returned", None,
                   <<"SetVoiceByName">>)
       ELSE Effect(params, "ValueError", None, <<"SetVoiceByName">>)
  ELSE IF name = "rate"
  THEN Effect([params EXCEPT !.rate = value], "returned", None,
              <<"SetParameter">>)
  ELSE IF name = "volume"
  THEN Effect([params EXCEPT !.volume = VolumeToEngine(value)], "returned",
              None, <<"SetParameter">>)
  ELSE IF name = "pitch"
  THEN \* int(value): the pitches passed are whole numbers
       Effect([params EXCEPT !.pitch = value], "returned", None,
              <<"SetParameter">>)
  ELSE Effect(params, "KeyError", None, <<>>)

\* getProperty(name), lines 75-113
getPropertyEffect(name) ==
  IF name = "voices"
  THEN Effect(params, "returned", Voices, <<"ListVoices">>)
  ELSE IF name = "voice"
  THEN Effect(params, "returned", params.voice, <<"GetCurrentVoice">>)
  ELSE IF name = "rate"
  THEN Effect(params, "returned", params.rate, <<"GetParameter">>)
  ELSE IF name = "volume"
  THEN Effect(params, "returned", VolumeFromEngine(params.volume),
              <<"GetParameter">>)
  ELSE IF name = "pitch"
  THEN Effect(params, "returned", params.pitch, <<"GetParameter">>)
  ELSE Effect(params, "KeyError", None, <<>>)

\* an accessor call: both are static methods, no field of a driver is touched
Accessor(op_, name, value, effect) ==
  /\ moduleInitialized
  /\ params' = effect.params
  /\ call' = [name |-> name, value |-> value, ret |-> effect.ret,
              engine |-> effect.engine]
  /\ last' = <<op_, effect.outcome>>
  /\ UNCHANGED driverVars
  /\ UNCHANGED <<moduleInitialized, initCalls, constructions, synthCallback>>

setProperty(name, value) ==
  Accessor("setProperty", name, value, setPropertyEffect(name, value))

getProperty(name) ==
  Accessor("getProperty", name, None, getPropertyEffect(name))

\* the names callers pass: the known ones and one that is none of them
Names == GetNames \cup {"colour"}

\* the values callers pass for a name
Values(name) ==
  IF name = "voice" THEN Voices \cup {None, "klingon"}
  ELSE IF name = "rate" THEN {150, DefaultRate}
  ELSE IF name = "volume" THEN {Fraction(50), Fraction(VolumeScale)}
  ELSE {50, 75}

\* the value a caller passes to leave the parameter as the constructor set it
Same(name) ==
  IF name = "voice" THEN DefaultVoice
  ELSE IF name = "rate" THEN DefaultRate
  ELSE IF name = "volume" THEN Fraction(VolumeScale)
  ELSE EngineDefaults.pitch

setPropertyCall ==
  \E name \in Names : \E value \in Values(name) : setProperty(name, value)

getPropertyCall == \E name \in Names : getProperty(name)

\* the calls made while the driver speaks: a known name and an unknown one,
\* with the value the parameter has
NamesInLoop == {"volume", "colour"}

setPropertyInLoop == \E name \in NamesInLoop : setProperty(name, Same(name))

getPropertyInLoop == \E name \in NamesInLoop : getProperty(name)

\* the volume set to any whole number of hundredths, and read
setVolume == \E k \in Hundredths : setProperty("volume", Fraction(k))

getVolume == getProperty("volume")

\* ------------------------------------------------- construction, destroy

\* EspeakDriver(proxy), lines 26-57.  rate: what _espeak.Initialize returns.
construct ==
  /\ constructions < MaxConstructions
  /\ constructions' = constructions + 1
  /\ \E rate \in {-1, 22050} :
       IF ~moduleInitialized /\ rate = -1
       THEN \* lines 34-36: RuntimeError, nothing is constructed
            /\ initCalls' = initCalls + 1
            /\ last' = <<"__init__", "RuntimeError">>
            /\ UNCHANGED <<moduleInitialized, synthCallback, params>>
            /\ UNCHANGED driverVars
       ELSE /\ initCalls' = IF moduleInitialized THEN initCalls
                            ELSE initCalls + 1
            /\ moduleInitialized' = TRUE
            \* lines 44-52
            /\ queue' = <<>>
            /\ looping' = FALSE
            /\ stopping' = FALSE
            /\ speaking' = FALSE
            /\ text_to_say' = 0
            /\ data_buffer' = <<>>
            /\ save_file' = None
            \* lines 54-57
            /\ synthCallback' = "_onSynth"
            /\ params' = Constructed(params)
            /\ last' = <<"__init__", "constructed">>
            /\ UNCHANGED <<busy, notes, synth, files, played, cb, cbret, pc,
                           op, external, timeout_counter, nextId, framesOut>>
  /\ call' = NoCall

\* destroy(), lines 66-68
destroy ==
  /\ moduleInitialized
  /\ synthCallback' = None
  /\ call' = NoCall
  /\ last' = <<"destroy", "returned">>
  /\ UNCHANGED <<moduleInitialized, initCalls, constructions, params>>
  /\ UNCHANGED driverVars

\* ------------------------------------------------------- specifications

Next ==
  \/ say
  \/ save_to_file
  \/ stop
  \/ endLoop
  \/ startLoop
  \/ runAndWait
  \/ runAndWaitReturn
  \/ LoopIteration
  \/ LoopExit
  \/ onSynthFrames
  \/ onSynthTerminated
  \/ onSynthNotify
  \/ onSynthReturn

Spec == Init /\ [][Next]_vars

\* the same driver under a proxy whose notification handlers may raise
NextFaultyProxy == Next \/ onSynthNotifyRaises

SpecFaultyProxy == Init /\ [][NextFaultyProxy]_vars

\* the property accessors called, by a notification handler or another
\* thread, while the driver speaks the tasks given to say and save_to_file
NextAccessors ==
  \/ say
  \/ save_to_file
  \/ LoopIteration
  \/ LoopExit
  \/ onSynthFrames
  \/ onSynthTerminated
  \/ onSynthNotify
  \/ onSynthReturn
  \/ setPropertyInLoop
  \/ getPropertyInLoop

SpecAccessors == Init /\ [][NextAccessors]_vars

\* a process from its start: constructions, destroy and the accessors; no
\* task is enqueued
InitProcess ==
  /\ moduleInitialized = FALSE
  /\ initCalls = 0
  /\ constructions = 0
  /\ synthCallback = None
  /\ params = EngineDefaults
  /\ call = NoCall
  /\ queue = <<>>
  /\ looping = FALSE
  /\ stopping = FALSE
  /\ speaking = FALSE
  /\ text_to_say = 0
  /\ data_buffer = <<>>
  /\ save_file = None
  /\ busy = FALSE
  /\ notes = <<>>
  /\ synth = NoSynth
  /\ files = <<>>
  /\ played = <<>>
  /\ cb = NoCallback
  /\ cbret = None
  /\ pc = "idle"
  /\ op = None
  /\ external = FALSE
  /\ timeout_counter = 0
  /\ nextId = 1
  /\ framesOut = 0
  /\ last = <<None, None>>

NextProcess == construct \/ destroy \/ setPropertyCall \/ getPropertyCall

SpecProcess == InitProcess /\ [][NextProcess]_vars

\* the volume of a constructed driver set and read, over all hundredths
NextVolume == setVolume \/ getVolume

SpecVolume == Init /\ [][NextVolume]_vars

\* ------------------------------------------------------------ properties

\* the texts of the notifications of one kind, in the order of their arrival
TextsOf(ev) ==
  LET s == SelectSeq(notes, LAMBDA x : x.ev = ev)
  IN [i \in 1..Len(s) |-> s[i].text]

StartedTexts == TextsOf("started-utterance")
FinishedTexts == TextsOf("finished-utterance")
FailedTexts == TextsOf("error")

Range(s) == {s[i] : i \in DOMAIN s}
Count(ev, text) == Cardinality({i \in DOMAIN notes : notes[i] = Note(ev, text)})
FirstN(n) == [i \in 1..n |-> i]

\* no call is in progress, the engine is idle and the callback has returned
Quiescent == pc = "idle" /\ ~IsPlaying /\ cb.pc = "none"

\* C1, as stated: every enqueued task produces exactly one "finished-utterance"
\* notification, in the order of enqueueing.  Stated for the behaviours in
\* which no synthesis start has failed, on the states in which everything the
\* driver was going to do is done.
C1_EveryTaskFinished ==
  (Quiescent /\ FailedTexts = <<>>) => FinishedTexts = FirstN(nextId - 1)

\* C1, amended: the tasks are dequeued and started in the order in which they
\* were enqueued, none skipped; the "finished-utterance" notifications received
\* so far come in that order, at most one for a task, only for tasks that were
\* started and whose Synth did not raise, and none of these is passed over.
C1_FinishedInOrder ==
  LET started == StartedTexts
      finished == FinishedTexts
      failed == FailedTexts
  IN /\ Len(started) <= nextId - 1
     /\ started = FirstN(Len(started))
     /\ \A i, j \in DOMAIN finished : i < j => finished[i] < finished[j]
     /\ Range(finished) \subseteq Range(started) \ Range(failed)
     /\ \A t \in Range(finished) :
          \A u \in 1..(t - 1) : u \in Range(finished) \cup Range(failed)

\* two tasks, one of them saved to its file, were finished one after the other
C1_Witness ==
  /\ FinishedTexts = <<1, 2>>
  /\ Len(files) = 1

\* C2: when runAndWait returns, the queue is empty, speaking is false and the
\* engine has no synthesis outstanding.
C2_RunAndWaitReturnsIdle ==
  last = <<"runAndWait", "returned">> =>
    queue = <<>> /\ ~speaking /\ ~IsPlaying

\* runAndWait has returned after tasks were started
C2_Witness ==
  /\ last = <<"runAndWait", "returned">>
  /\ StartedTexts # <<>>

\* C3, as stated: when the stream-terminated event of a speak task has been
\* handled, the sample buffer has been handed to the playback path.
C3_SpeakTaskPlayed ==
  last = <<"onSynth", "terminated">> =>
    played # <<>> /\ played[Len(played)] = data_buffer

\* C4: when Synth raises, the proxy is set not busy, receives exactly one
\* "error" notification for the task, as the last notification, and the call
\* that drove the loop ends with the exception; a task with an "error"
\* notification never has a "finished-utterance" one.
C4_SynthFailureReported ==
  /\ last[2] = "SynthError" =>
       /\ ~busy
       /\ pc = "idle"
       /\ last[1] \in {"say", "save_to_file", "runAndWait", "startLoop"}
       /\ notes # <<>>
       /\ notes[Len(notes)] = Note("error", text_to_say)
  /\ \A t \in Range(FailedTexts) :
       /\ Count("error", t) = 1
       /\ t \notin Range(FinishedTexts)

\* a call has just ended with the exception of Synth
C4_Witness == last[2] = "SynthError" /\ FailedTexts # <<>>

\* C5, as stated: after Synth raises, speaking is false and the loop is not
\* left marked as running while no loop runs.
C5_NotStuckAfterFailure ==
  last[2] = "SynthError" => ~speaking /\ ~(looping /\ pc # "loop")

\* C6, as stated: when the loop has ended at its ceiling on a synthesis that
\* never signals the end of its stream, the operation that started the loop
\* is not left blocked.
C6_CeilingNeverBlocks ==
  (last[2] = "timeout" /\ synth.hung) => pc = "idle"

\* the wait of runAndWait on a synthesis that never terminates never ends
C6_BlockedForGood ==
  [][(pc = "poll" /\ IsPlaying /\ synth.hung) =>
       (pc' = "poll" /\ IsPlaying' /\ synth'.hung /\ speaking')]_vars

\* C7, as stated: every invocation of _onSynth that has completed returned 0.
C7_CallbackReturnsZero == cbret \in {None, "0"}

C9_FileHoldsAllFrames ==
  \A i \in DOMAIN files : files[i].data = files[i].delivered

\* C10: stop() with no synthesis outstanding changes nothing of the driver
\* and asks nothing of the engine.
C10_StopIdleIsNoOp ==
  [][(stop /\ ~IsPlaying) =>
       UNCHANGED <<queue, speaking, looping, stopping, save_file, data_buffer,
                   text_to_say, synth, busy, notes>>]_vars

\* stop() has just returned from a driver that has tasks queued and none started
C10_Witness ==
  /\ last = <<"stop", "idle">>
  /\ queue # <<>>

\* C11: setProperty with a name other than voice, rate, volume, pitch, and
\* getProperty with a name other than these and voices, ends with KeyError,
\* invokes no function of the engine and leaves the engine's parameters, the
\* queue, the flags of the driver and the proxy's busy state as they were.
C11_UnknownNameChangesNothing ==
  [][((last'[1] = "setProperty" /\ call'.name \notin SetNames)
        \/ (last'[1] = "getProperty" /\ call'.name \notin GetNames)) =>
       /\ last'[2] = "KeyError"
       /\ call'.engine = <<>>
       /\ UNCHANGED <<params, synth, synthCallback>>
       /\ UNCHANGED <<queue, speaking, looping, stopping, busy, notes,
                      data_buffer, save_file, text_to_say>>]_vars

\* setProperty has just failed on an unknown name while a task is in
\* synthesis, another is queued and the proxy is busy
C11_Witness ==
  /\ last = <<"setProperty", "KeyError">>
  /\ call.name = "colour"
  /\ queue # <<>> /\ speaking /\ looping /\ busy

\* C12, as stated: whatever the sequence of constructions, failed ones
\* included, _espeak.Initialize is called at most once.
C12_InitializeAtMostOnce == initCalls <= 1

\* the class-level guard is never reset, and it is set by a construction only
C12_GuardNeverReset ==
  [][(moduleInitialized => moduleInitialized')
       /\ (moduleInitialized' # moduleInitialized =>
             last' = <<"__init__", "constructed">>)]_vars

\* C13: setProperty("volume", v), for v a whole number of hundredths in
\* [0.0, 1.0], stores the integer 100 * v in the engine, and a
\* getProperty("volume") that follows it returns v.
C13_VolumeRoundTrip ==
  [][/\ (last'[1] = "setProperty" /\ call'.name = "volume") =>
          /\ last'[2] = "returned"
          /\ params'.volume \in Hundredths
          /\ params'.volume * Unit = call'.value * VolumeScale
     /\ (last[1] = "setProperty" /\ call.name = "volume"
           /\ last'[1] = "getProperty" /\ call'.name = "volume") =>
          /\ last'[2] = "returned"
          /\ call'.ret = call.value]_vars

\* the volume 0.29, whose product with 100 falls below 29, has been set and
\* read back
C13_Witness ==
  /\ last = <<"getProperty", "returned">>
  /\ call.name = "volume"
  /\ call.ret = Fraction(29)
  /\ params.volume = 29

\* C14, as stated: speaking is true only while a synthesis call is
\* outstanding in the engine.
C14_SpeakingMeansOutstanding == speaking => IsPlaying

\* the part of C14 that holds: a synthesis is started only when speaking is
\* false and the engine has none outstanding
C14_StartsOnlyWhenFree ==
  [][(synth'.text # 0 /\ synth'.text # synth.text) =>
       (~speaking /\ ~IsPlaying /\ speaking')]_vars

\* C15, as stated: when speaking is false and the stream-terminated event of
\* the task has been handled, the sample buffer is empty.
C15_BufferEmptyWhenIdle ==
  (~speaking /\ ~IsPlaying /\ cb.pc = "none") => data_buffer = <<>>

\* the task that has just been dequeued, in a step that shortens the queue
Dequeued == Len(queue') < Len(queue)

C17_EndLoopIsCooperative ==
  [][/\ endLoop =>
          /\ ~looping'
          /\ UNCHANGED <<queue, speaking, stopping, busy, notes, synth,
                         data_buffer, save_file, text_to_say, pc, op>>
     /\ (pc = "loop" /\ ~looping) =>
          /\ queue' = queue
          /\ pc' = "loop" \/ last'[2] = "loop-ended"
     /\ (pc = "idle" /\ ~looping /\ queue # <<>> /\ pc' # "idle") =>
          /\ pc' = "loop"
          /\ looping'
          /\ Len(queue') >= Len(queue)
          /\ SubSeq(queue', 1, Len(queue)) = queue
     /\ (pc = "loop" /\ Dequeued) =>
          /\ looping
          /\ queue' = Tail(queue)
          /\ text_to_say' = Head(queue).text
    ]_vars

\* a loop has exited on endLoop() with a task left in the queue
C17_Witness ==
  /\ last[2] = "loop-ended"
  /\ pc = "idle"
  /\ queue # <<>>

\* C18, as stated: a call of startLoop, external or blocking, that is not
\* ended by a failure of Synth or by the ceiling ends without raising, with
\* looping false and the proxy not busy.
C18_ExternalLoopLikeBlocking ==
  (last[1] = "startLoop" /\ last[2] \notin {"SynthError", "timeout"}) =>
    (last[2] = "loop-ended" /\ ~looping /\ ~busy)

\* C19, as stated, in its finite form, for the behaviours in which no Synth
\* has raised: when the loop started by runAndWait has ended, normally or at
\* the ceiling, no task is left in the queue (nothing dequeues that task, see
\* C19_LeftBehindForGood, so the wait of runAndWait would not end).
C19_WaitCanEnd ==
  (last[1] = "runAndWait" /\ last[2] \in {"loop-ended", "timeout"}
     /\ FailedTexts = <<>>) =>
    queue = <<>>

\* once runAndWait waits with a task queued and no loop to run, it waits for
\* ever
C19_LeftBehindForGood ==
  [][(pc = "poll" /\ ~looping /\ queue # <<>>) =>
       (pc' = "poll" /\ ~looping' /\ queue' = queue)]_vars
====
